---- MODULE Spec2Model ----
(***************************************************************************)
(* Model of the BAR228 BLE session of                                      *)
(* custom_components/bar228_ble/bar228_ble/parser.py:                      *)
(* BAR228BluetoothDeviceData with its notification_handler, the            *)
(* disconnect_on_missing_services wrapper, _get_bar228 and update_device.  *)
(*                                                                         *)
(* update_device is a coroutine: it runs without interruption from one     *)
(* await to the next.  Every action below is one such run: it starts at    *)
(* the completion of the awaited transport operation (or at the call) and  *)
(* ends at the next await (or at the return / raise).  Notifications and   *)
(* remote disconnects are events of the same event loop and interleave     *)
(* only at the awaits.                                                     *)
(*                                                                         *)
(* Sensor values temperature and pressure are kept as integer tenths:      *)
(* the value n stands for the float n / 10 the code stores.                *)
(***************************************************************************)
EXTENDS Integers, Sequences, FiniteSets, TLC

(***************************************************************************)
(* Bounds of the model.                                                    *)
(***************************************************************************)
\* payload lengths 0..MaxLen are delivered
MaxLen == 11
\* handles TelemetryHandle - HandleSpan .. TelemetryHandle + HandleSpan notify
HandleSpan == 1
\* number of notifications delivered in one behaviour (the clock's range)
MaxTime == 2
\* connection handles (BleakClient objects) created in one behaviour
MaxClients == 2

(***************************************************************************)
(* Program constants.                                                      *)
(***************************************************************************)
\* parser.py:95   if sender.handle >= 0x0013
TelemetryHandle == 19
\* parser.py:34-38  BAR228_CHARACTERISTIC_UUID_WRITE1 .. WRITE5, in the
\* order _get_bar228 subscribes to them
NumWrite == 5
\* parser.py:104  self._command_data[8:10]: a frame has at least 10 bytes
FrameLen == 10
\* parser.py:222  ble_device.name.startswith("IDTBA228")
NamePrefix == <<"I", "D", "T", "B", "A", "2", "2", "8">>

\* Python's None and a present value v: an optional is a sequence of at most
\* one element, so that None differs from every value, 0 and b"" included
None == <<>>
Some(v) == <<v>>
\* self._bleclient is None
NoClient == 0
NoEvent == "NoEvent"
\* marks a failed struct.unpack (all decoded values are >= 0)
StructError == -1

\* the callers of update_device; Poller is the periodic poller
Poller == "poller"
Tasks == {"poller", "other"}
\* the connection handles establish_connection can create
Clients == 1..MaxClients

\* failures of the transport: the two classes of parser.py:24-29 and any
\* other BleakError
MissingKinds == {"BleakServiceMissing", "BleakCharacteristicMissing"}
ExcKinds == MissingKinds \cup {"BleakError"}

Handles == (TelemetryHandle - HandleSpan)..(TelemetryHandle + HandleSpan)
Writes == 1..NumWrite

\* offsets of the payload bytes the decoder reads, parser.py:98-104
ReadOffsets == {3, 4, 6, 8, 9}
\* a telemetry frame of MaxLen bytes: the bytes the decoder reads differ
\* from one another (seed a plus the offset), all other bytes are f
Frame(a, f) ==
    [i \in 1..MaxLen |-> IF i - 1 \in ReadOffsets THEN (a + i - 1) % 256 ELSE f]
FrameSeeds == {2, 246}
Fillers == {0, 255}
Frames == {Frame(a, f) : a \in FrameSeeds, f \in Fillers}
\* the payloads the decoder is run on: every prefix (length 0..MaxLen) of
\* every frame
Payloads == {SubSeq(fr, 1, n) : fr \in Frames, n \in 0..MaxLen}
\* the payloads delivered while the session is exercised: one full
\* telemetry frame and one cut after the humidity byte
ProbePayloads == {SubSeq(Frame(2, 0), 1, n) : n \in {7, 10}}

DeviceNames ==
    { NamePrefix \o <<"-", "1">>,
      SubSeq(NamePrefix, 1, 7),
      <<"B", "A", "R", "2", "2", "8">> }
\* the BLEDevice values passed to update_device: each name at its own address
AddressOf(n) == <<"A", "A", ":">> \o SubSeq(n, 1, 2)
BLEDevices == {[name |-> n, address |-> AddressOf(n)] : n \in DeviceNames}

VARIABLES
    bardevice,      \* self._bardevice: None or the BAR228Device record
    bleclient,      \* self._bleclient: NoClient or a connection handle
    command_data,   \* self._command_data: None or the last payload
    event,          \* self._event: NoEvent, or the asyncio.Event: clear / set
    nclients,       \* number of handles establish_connection has created
    connected,      \* per handle: BleakClient.is_connected
    notifying,      \* per handle: the characteristics with notifications on
    now,            \* the clock read by datetime.now()
    sender,         \* handle of the last notification delivered
    handler_exc,    \* what the last notification_handler run raised
    pc,             \* per call: the await it is suspended in
    ble_device,     \* per call: the ble_device argument
    client,         \* per call: the handle the awaited operation is on
    idx,            \* per call: the WRITEn being subscribed
    ops,            \* per call: transport operations issued by the call
    missing,        \* per call: a start_notify raised a Missing error
    ret             \* per call: what the last call returned or raised

vars == <<bardevice, bleclient, command_data, event, nclients, connected, notifying,
          now, sender, handler_exc, pc, ble_device, client, idx, ops,
          missing, ret>>

session == <<bardevice, bleclient, command_data, event>>
transport == <<nclients, connected, notifying>>
notif == <<now, sender, handler_exc>>
calls == <<pc, ble_device, client, idx, ops, missing, ret>>

(***************************************************************************)
(* Pure helpers.                                                           *)
(***************************************************************************)
Min(a, b) == IF a < b THEN a ELSE b

\* data[a:b] of Python for 0 <= a <= b
PySlice(data, a, b) == SubSeq(data, Min(a, Len(data)) + 1, Min(b, Len(data)))

\* unpack_H reading the two bytes big-endian (">H")
unpack_H_big_endian(s) == IF Len(s) = 2 THEN 256 * s[1] + s[2] ELSE StructError

\* struct.unpack("<H", s)[0]: needs exactly two bytes
unpack_H(s) == IF Len(s) = 2 THEN s[1] + 256 * s[2] ELSE StructError

\* struct.unpack("@B", s)[0]: needs exactly one byte
unpack_B(s) == IF Len(s) = 1 THEN s[1] ELSE StructError

\* startswith that accepts every name
startswith_any(s, p) == TRUE

\* str.startswith
startswith(s, p) == Len(s) >= Len(p) /\ SubSeq(s, 1, Len(p)) = p

\* NewSensors without the "last" key
NewSensors_no_last ==
    [temperature |-> None, humidity |-> None, pressure |-> None]

\* the sensors dict update_device fills in for a new BAR228Device
NewSensors ==
    [temperature |-> None, humidity |-> None, pressure |-> None, last |-> None]

\* BAR228Device() with name, address and sensors as update_device sets them
NewDevice(d) == [name |-> d.name, address |-> d.address, sensors |-> NewSensors]

\* self._bardevice.sensors of the session's device
Sensors == bardevice[1].sensors

\* ensure_device that clears the sensors of an existing record
ensure_device_reset(d) ==
    IF bardevice = None THEN Some(NewDevice(d))
    ELSE Some([bardevice[1] EXCEPT !.sensors = NewSensors])

\* ensure_device that stores name and address on every call
ensure_device_rename(d) ==
    IF bardevice = None THEN Some(NewDevice(d))
    ELSE Some([bardevice[1] EXCEPT !.name = d.name, !.address = d.address])

\* self._bardevice after "if self._bardevice is not None ... else ...",
\* parser.py:194-205: the record is created only when there is none
ensure_device(d) == IF bardevice = None THEN Some(NewDevice(d)) ELSE bardevice

\* IsTelemetry with the threshold one handle too low
IsTelemetry_low(h) == h >= TelemetryHandle - 1

\* sender.handle >= 0x0013
IsTelemetry(h) == h >= TelemetryHandle

\* ProcessData with the timestamp assigned before the three values
ProcessData_last_first(s, data, clock) ==
    LET t == unpack_H(PySlice(data, 3, 5))
        h == unpack_B(PySlice(data, 6, 7))
        p == unpack_H(PySlice(data, 8, 10))
        s0 == [s EXCEPT !.last = Some(clock)]
        s1 == [s0 EXCEPT !.temperature = Some(t)]
        s2 == [s1 EXCEPT !.humidity = Some(h)]
        s3 == [s2 EXCEPT !.pressure = Some(p)]
    IN  IF t = StructError THEN [sensors |-> s0, exc |-> "struct.error"]
        ELSE IF h = StructError THEN [sensors |-> s1, exc |-> "struct.error"]
        ELSE IF p = StructError THEN [sensors |-> s2, exc |-> "struct.error"]
        ELSE [sensors |-> s3, exc |-> "none"]

\* The body of "if sender.handle >= 0x0013" run on the sensors dict s:
\* the four assignments in order, stopping at the first struct.unpack that
\* raises.  Gives the sensors dict afterwards and the exception raised.
ProcessData(s, data, clock) ==
    LET t == unpack_H(PySlice(data, 3, 5))
        h == unpack_B(PySlice(data, 6, 7))
        p == unpack_H(PySlice(data, 8, 10))
        s1 == [s EXCEPT !.temperature = Some(t)]
        s2 == [s1 EXCEPT !.humidity = Some(h)]
        s3 == [s2 EXCEPT !.pressure = Some(p)]
        s4 == [s3 EXCEPT !.last = Some(clock)]
    IN  IF t = StructError THEN [sensors |-> s, exc |-> "struct.error"]
        ELSE IF h = StructError THEN [sensors |-> s1, exc |-> "struct.error"]
        ELSE IF p = StructError THEN [sensors |-> s2, exc |-> "struct.error"]
        ELSE [sensors |-> s4, exc |-> "none"]

\* HasClient that forgets the stored handle
HasClient_never == FALSE

\* "if self._bleclient is not None", parser.py:207
HasClient == bleclient # NoClient

\* is_connected that always reports a lost connection
is_connected_never(c) == FALSE

\* BleakClient.is_connected of handle c, parser.py:209
is_connected(c) == connected[c]

\* CaughtByExcept as "except BleakError" written with the plain class only
CaughtByExcept_plain(e) == e = "BleakError"

\* CaughtByExcept with the try/except left out
CaughtByExcept_nothing(e) == FALSE

\* "except Exception" of _get_bar228: every transport failure is an Exception
CaughtByExcept(e) == e \in ExcKinds

\* "except (BleakServiceMissing, BleakCharacteristicMissing)" of the wrapper
WrapperCatches(e) == e \in MissingKinds

(***************************************************************************)
(* Initial state: BAR228BluetoothDeviceData.__init__                       *)
(***************************************************************************)
Init ==
    /\ bardevice = None
    /\ bleclient = NoClient
    /\ command_data = None
    /\ event = NoEvent
    /\ nclients = 0
    /\ connected = [c \in Clients |-> FALSE]
    /\ notifying = [c \in Clients |-> {}]
    /\ now = 0
    /\ sender = None
    /\ handler_exc = "none"
    /\ pc = [t \in Tasks |-> "idle"]
    /\ ble_device = [t \in Tasks |-> None]
    /\ client = [t \in Tasks |-> NoClient]
    /\ idx = [t \in Tasks |-> 0]
    /\ ops = [t \in Tasks |-> <<>>]
    /\ missing = [t \in Tasks |-> FALSE]
    /\ ret = [t \in Tasks |-> "none"]

(***************************************************************************)
(* notification_handler(sender, data), parser.py:86-111.  The transport    *)
(* calls it for a connected handle c with notifications on.  An exception  *)
(* of struct.unpack leaves the handler at that statement and is raised to  *)
(* the transport, the handler's caller.                                    *)
(***************************************************************************)
notification_handler(c, h, data) ==
    /\ connected[c]
    /\ notifying[c] # {}
    /\ now < MaxTime
    /\ now' = now + 1
    /\ sender' = Some(h)
    /\ command_data' = Some(data)
    /\ IF IsTelemetry(h)
       THEN IF bardevice = None
            THEN /\ handler_exc' = "AttributeError"
                 /\ UNCHANGED <<bardevice, event>>
            ELSE LET r == ProcessData(Sensors, data, now + 1)
                 IN  /\ bardevice' = Some([bardevice[1] EXCEPT
                                              !.sensors = r.sensors])
                     /\ handler_exc' = r.exc
                     /\ event' = IF r.exc = "none" /\ event # NoEvent
                                 THEN "set" ELSE event
       ELSE /\ handler_exc' = "none"
            /\ event' = IF event # NoEvent THEN "set" ELSE event
            /\ UNCHANGED bardevice
    /\ UNCHANGED <<bleclient, transport, calls>>

(***************************************************************************)
(* The device or the radio drops the connection of handle c: the handle    *)
(* reports not connected and its notifications stop.                       *)
(***************************************************************************)
remote_disconnect(c) ==
    /\ connected[c]
    /\ connected' = [connected EXCEPT ![c] = FALSE]
    /\ notifying' = [notifying EXCEPT ![c] = {}]
    /\ UNCHANGED <<session, nclients, notif, calls>>

(***************************************************************************)
(* disconnect_on_missing_services, parser.py:113-136, applied to an        *)
(* exception e that leaves the body of _get_bar228.  The handler's first   *)
(* statement reads the global "logger", which the module never defines     *)
(* (it defines _LOGGER), so the handler ends in a NameError before         *)
(* clear_cache and disconnect; any other exception passes through.         *)
(***************************************************************************)
WrapperRaises(e) == IF WrapperCatches(e) THEN "NameError" ELSE e
\* the transport operations the wrapper's handler issues for e
WrapperOps(e) == <<>>

(***************************************************************************)
(* _get_bar228 entered by call t on handle c, parser.py:143-148: a new     *)
(* asyncio.Event, then the first start_notify is awaited.                  *)
(***************************************************************************)
enter_get_bar228(t, c) ==
    /\ event' = "clear"
    /\ pc' = [pc EXCEPT ![t] = "start_notify"]
    /\ client' = [client EXCEPT ![t] = c]
    /\ idx' = [idx EXCEPT ![t] = 1]
    /\ ops' = [ops EXCEPT ![t] = Append(@, <<"start_notify", 1>>)]
    /\ UNCHANGED ret

\* return_device that first waits for the event of _get_bar228 to be set
return_device_waits(t) ==
    IF event = "clear"
    THEN pc' = [pc EXCEPT ![t] = "wait"] /\ UNCHANGED ret
    ELSE /\ pc' = [pc EXCEPT ![t] = "idle"]
         /\ ret' = [ret EXCEPT ![t] = "device"]

\* update_device returns self._bardevice, parser.py:228-230
return_device(t) ==
    /\ pc' = [pc EXCEPT ![t] = "idle"]
    /\ ret' = [ret EXCEPT ![t] = "device"]

\* update_device ends by raising e
raise(t, e) ==
    /\ pc' = [pc EXCEPT ![t] = "idle"]
    /\ ret' = [ret EXCEPT ![t] = e]

(***************************************************************************)
(* update_device(ble_device) called, parser.py:190-221: up to the first    *)
(* await, or to the return when the stored handle reports connected.       *)
(***************************************************************************)
update_device(t, d) ==
    /\ pc[t] = "idle"
    /\ bardevice' = ensure_device(d)
    /\ command_data' = IF bardevice = None THEN None ELSE command_data
    /\ ble_device' = [ble_device EXCEPT ![t] = Some(d)]
    /\ missing' = [missing EXCEPT ![t] = FALSE]
    /\ idx' = [idx EXCEPT ![t] = 0]
    /\ IF HasClient
       THEN IF is_connected(bleclient)
            THEN /\ ops' = [ops EXCEPT ![t] = <<>>]
                 /\ client' = [client EXCEPT ![t] = NoClient]
                 /\ return_device(t)
            ELSE /\ ops' = [ops EXCEPT ![t] = << <<"connect", 0>> >>]
                 /\ client' = [client EXCEPT ![t] = bleclient]
                 /\ pc' = [pc EXCEPT ![t] = "connect"]
                 /\ ret' = [ret EXCEPT ![t] = "none"]
       ELSE /\ ops' = [ops EXCEPT ![t] = << <<"establish_connection", 0>> >>]
            /\ client' = [client EXCEPT ![t] = NoClient]
            /\ pc' = [pc EXCEPT ![t] = "establish_connection"]
            /\ ret' = [ret EXCEPT ![t] = "none"]
    /\ UNCHANGED <<bleclient, event, transport, notif>>

\* establish_connection_fails that drops the device record on the failure
establish_connection_fails_drops(t) ==
    /\ pc[t] = "establish_connection"
    /\ raise(t, "BleakError")
    /\ bardevice' = None
    /\ UNCHANGED <<bleclient, command_data, event, transport, notif,
                   ble_device, client, idx, ops, missing>>

(***************************************************************************)
(* establish_connection fails, parser.py:219: the error leaves             *)
(* update_device and nothing is stored.                                    *)
(***************************************************************************)
establish_connection_fails(t) ==
    /\ pc[t] = "establish_connection"
    /\ raise(t, "BleakError")
    /\ UNCHANGED <<session, transport, notif, ble_device, client, idx, ops,
                   missing>>

(***************************************************************************)
(* establish_connection returns a new connected handle, parser.py:219-226: *)
(* it is stored, and _get_bar228 runs only for a name with the prefix.     *)
(***************************************************************************)
establish_connection_done(t) ==
    /\ pc[t] = "establish_connection"
    /\ nclients < MaxClients
    /\ nclients' = nclients + 1
    /\ connected' = [connected EXCEPT ![nclients + 1] = TRUE]
    /\ UNCHANGED notifying
    /\ bleclient' = nclients + 1
    /\ IF startswith(ble_device[t][1].name, NamePrefix)
       THEN enter_get_bar228(t, nclients + 1)
       ELSE /\ return_device(t)
            /\ UNCHANGED <<event, client, idx, ops>>
    /\ UNCHANGED <<bardevice, command_data, notif, ble_device, missing>>

\* connect_fails that runs the recovery of the wrapper on the failure
connect_fails_recovers(t) ==
    /\ pc[t] = "connect"
    /\ raise(t, "BleakError")
    /\ ops' = [ops EXCEPT ![t] =
                  @ \o << <<"clear_cache", 0>>, <<"disconnect", 0>> >>]
    /\ UNCHANGED <<session, transport, notif, ble_device, client, idx,
                   missing>>

(***************************************************************************)
(* self._bleclient.connect() fails, parser.py:211.                         *)
(***************************************************************************)
connect_fails(t) ==
    /\ pc[t] = "connect"
    /\ raise(t, "BleakError")
    /\ UNCHANGED <<session, transport, notif, ble_device, client, idx, ops,
                   missing>>

\* connect_done that returns the device without subscribing again
connect_done_no_subscribe(t) ==
    /\ pc[t] = "connect"
    /\ connected' = [connected EXCEPT ![client[t]] = TRUE]
    /\ return_device(t)
    /\ UNCHANGED <<session, nclients, notifying, notif, ble_device, client,
                   idx, ops, missing>>

\* connect_done with the name-prefix gate of the first connection
connect_done_gated(t) ==
    /\ pc[t] = "connect"
    /\ connected' = [connected EXCEPT ![client[t]] = TRUE]
    /\ UNCHANGED <<nclients, notifying>>
    /\ IF startswith(ble_device[t][1].name, NamePrefix)
       THEN enter_get_bar228(t, bleclient)
       ELSE /\ return_device(t)
            /\ UNCHANGED <<event, client, idx, ops>>
    /\ UNCHANGED <<bardevice, bleclient, command_data, notif, ble_device,
                   missing>>

(***************************************************************************)
(* self._bleclient.connect() returns, parser.py:211-214: the handle is     *)
(* connected and _get_bar228 runs on the handle stored now.                *)
(***************************************************************************)
connect_done(t) ==
    /\ pc[t] = "connect"
    /\ connected' = [connected EXCEPT ![client[t]] = TRUE]
    /\ UNCHANGED <<nclients, notifying>>
    /\ enter_get_bar228(t, bleclient)
    /\ UNCHANGED <<bardevice, bleclient, command_data, notif, ble_device,
                   missing>>

(***************************************************************************)
(* The awaited start_notify of WRITEidx ends with outcome o ("ok" or an    *)
(* exception), parser.py:145-188 and the wrapper around it: a caught       *)
(* exception is logged and the next start_notify is awaited; after WRITE5  *)
(* _get_bar228 returns the device, update_device stores and returns it.    *)
(***************************************************************************)
start_notify_done(t, o) ==
    /\ pc[t] = "start_notify"
    /\ o = "ok" => connected[client[t]]
    /\ notifying' = IF o = "ok"
                    THEN [notifying EXCEPT ![client[t]] = @ \cup {idx[t]}]
                    ELSE notifying
    /\ missing' = IF o \in MissingKinds
                  THEN [missing EXCEPT ![t] = TRUE] ELSE missing
    /\ IF o = "ok" \/ CaughtByExcept(o)
       THEN IF idx[t] < NumWrite
            THEN /\ idx' = [idx EXCEPT ![t] = @ + 1]
                 /\ ops' = [ops EXCEPT ![t] =
                               Append(@, <<"start_notify", idx[t] + 1>>)]
                 /\ UNCHANGED <<pc, ret>>
            ELSE /\ return_device(t)
                 /\ UNCHANGED <<idx, ops>>
       ELSE /\ raise(t, WrapperRaises(o))
            /\ ops' = [ops EXCEPT ![t] = @ \o WrapperOps(o)]
            /\ UNCHANGED idx
    /\ UNCHANGED <<session, nclients, connected, notif, ble_device, client>>

(***************************************************************************)
(* Specifications.  Spec: update_device is called by the poller alone,     *)
(* one call after the other.  SpecConc: a second caller may call           *)
(* update_device while a call of the poller is suspended.                  *)
(***************************************************************************)
Step(t) ==
    \/ \E d \in BLEDevices : update_device(t, d)
    \/ establish_connection_fails(t)
    \/ establish_connection_done(t)
    \/ connect_fails(t)
    \/ connect_done(t)
    \/ \E o \in {"ok"} \cup ExcKinds : start_notify_done(t, o)

Notify(P) ==
    \E c \in Clients, h \in Handles, data \in P :
        notification_handler(c, h, data)

Disconnect == \E c \in Clients : remote_disconnect(c)

Next == Step(Poller) \/ Notify(ProbePayloads) \/ Disconnect

Spec == Init /\ [][Next]_vars

\* FairSpec: Spec on a transport whose operations all end: the operation a
\* call awaits (establish_connection, connect, start_notify) eventually
\* returns or raises
Completes(t) ==
    \/ establish_connection_fails(t)
    \/ establish_connection_done(t)
    \/ connect_fails(t)
    \/ connect_done(t)
    \/ \E o \in {"ok"} \cup ExcKinds : start_notify_done(t, o)

FairSpec == Spec /\ WF_vars(Completes(Poller))

\* SpecConc: while a call of the poller is suspended in establish_connection
\* a second caller may call update_device; its call then runs alongside the
\* poller's calls.  No notification is delivered.
Overlap(t) ==
    \/ \E d \in BLEDevices :
          pc[Poller] = "establish_connection" /\ update_device(t, d)
    \/ Completes(t)

NextConc == Step(Poller) \/ Overlap("other") \/ Disconnect

SpecConc == Init /\ [][NextConc]_vars

\* SpecDecode: the decoder run on every payload, on a transport whose
\* operations succeed
NextDecode ==
    \/ \E d \in BLEDevices : update_device(Poller, d)
    \/ establish_connection_done(Poller)
    \/ connect_done(Poller)
    \/ start_notify_done(Poller, "ok")
    \/ Notify(Payloads)
    \/ Disconnect

SpecDecode == Init /\ [][NextDecode]_vars

(***************************************************************************)
(* Helpers of the properties.                                              *)
(***************************************************************************)
\* number of operations named n that call t issued
Count(t, n) == Cardinality({i \in DOMAIN ops[t] : ops[t][i][1] = n})

\* the WRITEn call t subscribed to, in the order of the calls
SubscribeSeq(t) ==
    LET sel == SelectSeq(ops[t], LAMBDA op : op[1] = "start_notify")
    IN  [i \in 1..Len(sel) |-> sel[i][2]]

\* call t has ended
Ended(t) == pc[t] = "idle" /\ ret[t] # "none"

\* the name starts with "IDTBA228"
HasPrefix(n) == Len(n) >= 8 /\ SubSeq(n, 1, 8) = NamePrefix

\* a step of the poller that begins a call of update_device
PollerCalls == pc[Poller] = "idle" /\ calls' # calls

\* a step that runs notification_handler
Notified == now' # now

\* the handles that report connected
Live == {c \in Clients : connected[c]}

(***************************************************************************)
(* C1: when the session holds a handle that reports connected, a call of   *)
(* update_device issues no start_notify and no connect (it issues no       *)
(* transport operation at all), changes nothing of the session or the      *)
(* transport, and returns the device record at once.                       *)
(***************************************************************************)
C1_ReadyUpdateIsNoOp ==
    [][(PollerCalls /\ bleclient # NoClient /\ connected[bleclient])
        => /\ pc'[Poller] = "idle"
           /\ ret'[Poller] = "device"
           /\ ops'[Poller] = <<>>
           /\ UNCHANGED <<bardevice, bleclient, event, transport>>]_vars

\* a call has returned at once on a connected, subscribed session
C1_Witness ==
    /\ Ended(Poller) /\ ret[Poller] = "device" /\ ops[Poller] = <<>>
    /\ bleclient # NoClient /\ connected[bleclient]
    /\ notifying[bleclient] = Writes

(***************************************************************************)
(* C2: a notification on a handle >= 0x0013 with fewer than 10 bytes does  *)
(* not raise to the caller of notification_handler and leaves the four     *)
(* reading fields as they were.                                            *)
(***************************************************************************)
C2_ShortPayloadIsIgnored ==
    [][(Notified /\ sender'[1] >= TelemetryHandle
                 /\ Len(command_data'[1]) < FrameLen)
        => (handler_exc' = "none" /\ bardevice' = bardevice)]_vars

(***************************************************************************)
(* C3: when a start_notify of a call fails with BleakServiceMissing or     *)
(* BleakCharacteristicMissing, the call issues exactly one clear_cache and *)
(* one disconnect and ends by raising that error.                          *)
(***************************************************************************)
C3_MissingServiceRecovers ==
    \A t \in Tasks :
        (Ended(t) /\ missing[t])
        => /\ ret[t] \in MissingKinds
           /\ Count(t, "clear_cache") = 1
           /\ Count(t, "disconnect") = 1

(***************************************************************************)
(* C4: a call of update_device that establishes the connection for a name  *)
(* with the prefix returns only after a telemetry frame was decoded: when  *)
(* it has returned, "last" is set.                                         *)
(***************************************************************************)
C4_FirstUpdateWaitsForReading ==
    [][(pc[Poller] = "start_notify" /\ pc'[Poller] = "idle"
            /\ ret'[Poller] = "device"
            /\ ops[Poller][1][1] = "establish_connection")
        => bardevice'[1].sensors.last # None]_vars

(***************************************************************************)
(* C5: at most one handle is live, the live handle is the one the session  *)
(* stores, and a connection becomes live only when no handle is live.      *)
(***************************************************************************)
C5_AtMostOneLive ==
    /\ [](Cardinality(Live) <= 1 /\ Live \subseteq {bleclient})
    /\ [][\A c \in Clients : (~connected[c] /\ connected'[c]) => Live = {}]_vars

\* the stored handle is live again after a reconnect with subscriptions
C5_Witness ==
    /\ Ended(Poller) /\ ret[Poller] = "device"
    /\ Count(Poller, "connect") = 1
    /\ Live = {bleclient}

(***************************************************************************)
(* C6: a notification on a handle below 0x0013 changes no reading field    *)
(* (nothing of the device record), whatever the payload.                   *)
(***************************************************************************)
C6_LowHandleKeepsReading ==
    [][(Notified /\ sender'[1] < TelemetryHandle) => bardevice' = bardevice]_vars

\* a notification below the threshold arrived after a decoded reading
C6_Witness ==
    /\ sender # None /\ sender[1] < TelemetryHandle
    /\ Len(command_data[1]) >= FrameLen
    /\ bardevice[1].sensors.last # None

(***************************************************************************)
(* C7: after a notification of at least 10 bytes on a handle >= 0x0013,    *)
(* temperature is payload[3] + 256 * payload[4] tenths, humidity is        *)
(* payload[6], pressure is payload[8] + 256 * payload[9] tenths and        *)
(* "last" is the time of the notification.                                 *)
(***************************************************************************)
C7_DecodeFormula ==
    (sender # None /\ sender[1] >= TelemetryHandle
        /\ Len(command_data[1]) >= FrameLen)
    => LET data == command_data[1]
       IN  /\ Sensors.temperature = Some(data[4] + 256 * data[5])
           /\ Sensors.humidity = Some(data[7])
           /\ Sensors.pressure = Some(data[9] + 256 * data[10])
           /\ Sensors.last = Some(now)

\* an 11-byte frame with high bytes was decoded over an earlier reading
C7_Witness ==
    /\ sender # None /\ sender[1] > TelemetryHandle
    /\ Len(command_data[1]) > FrameLen
    /\ Sensors.temperature = Some(249 + 256 * 250)
    /\ Sensors.humidity = Some(252)
    /\ Sensors.pressure = Some(254 + 256 * 255)
    /\ Sensors.last = Some(2)

C9_AllFiveInOrder ==
    \A t \in Tasks :
        LET sub == SubscribeSeq(t)
        IN  /\ sub = [i \in 1..Len(sub) |-> i]
            /\ Len(sub) <= NumWrite
            /\ (pc[t] = "idle" /\ Len(sub) > 0)
               => (Len(sub) = NumWrite /\ ret[t] = "device")

\* a call returned after WRITE1, WRITE3 and WRITE5 failed, one of them
\* with a Missing error
C9_Witness ==
    /\ Ended(Poller) /\ ret[Poller] = "device" /\ missing[Poller]
    /\ SubscribeSeq(Poller) = <<1, 2, 3, 4, 5>>
    /\ bleclient # NoClient /\ connected[bleclient]
    /\ notifying[bleclient] = {2, 4}

(***************************************************************************)
(* C10: when establish_connection returns in a call for a name without     *)
(* the prefix, the call returns at once: it has issued no start_notify,    *)
(* the reading is all absent, no event was created to wait on, and the     *)
(* new handle is stored and connected.                                     *)
(***************************************************************************)
C10_NoPrefixSkipsSubscription ==
    [][(pc[Poller] = "establish_connection" /\ nclients' # nclients
            /\ ~HasPrefix(ble_device[Poller][1].name))
        => /\ pc'[Poller] = "idle"
           /\ ret'[Poller] = "device"
           /\ ops'[Poller] = << <<"establish_connection", 0>> >>
           /\ bardevice'[1].sensors = NewSensors
           /\ event' = NoEvent
           /\ bleclient' # NoClient
           /\ connected'[bleclient']
           /\ notifying'[bleclient'] = {}]_vars

\* such a call has returned
C10_Witness ==
    /\ Ended(Poller) /\ ret[Poller] = "device"
    /\ ops[Poller] = << <<"establish_connection", 0>> >>
    /\ ~HasPrefix(ble_device[Poller][1].name)
    /\ bleclient # NoClient /\ connected[bleclient]
    /\ Sensors = NewSensors

\* the keys of the sensors dict, sensor.py:36-61
SensorKeys == {"temperature", "humidity", "pressure", "last"}

\* the last notification was a telemetry frame of full length
FullFrameLast ==
    /\ sender # None /\ sender[1] >= TelemetryHandle
    /\ Len(command_data[1]) >= FrameLen

(***************************************************************************)
(* C11: every call of update_device that has returned returned the         *)
(* session's device record: the record exists, its sensors have exactly    *)
(* the keys temperature, humidity, pressure and last, each absent or one   *)
(* value, and after a full telemetry frame they are that frame's values.   *)
(***************************************************************************)
C11_ReturnsFullRecord ==
    \A t \in Tasks :
        (Ended(t) /\ ret[t] = "device")
        => /\ bardevice # None
           /\ DOMAIN Sensors = SensorKeys
           /\ \A k \in SensorKeys : Len(Sensors[k]) <= 1
           /\ FullFrameLast
              => LET data == command_data[1]
                 IN  Sensors = [temperature |-> Some(data[4] + 256 * data[5]),
                                humidity |-> Some(data[7]),
                                pressure |-> Some(data[9] + 256 * data[10]),
                                last |-> Some(now)]

\* a call that reconnected has returned the record with a decoded reading
C11_Witness ==
    /\ Ended(Poller) /\ ret[Poller] = "device"
    /\ Count(Poller, "connect") = 1
    /\ FullFrameLast
    /\ Sensors.pressure = Some(10 + 256 * 11)

\* the operations of a call that reconnects and subscribes to WRITE1..WRITEn
ReconnectOps(n) ==
    << <<"connect", 0>> >> \o [i \in 1..n |-> <<"start_notify", i>>]

(***************************************************************************)
(* C12: a call on a session whose stored handle reports disconnected       *)
(* awaits connect() on that stored handle first; when connect() has        *)
(* returned the handle is connected and WRITE1..WRITE5 are subscribed on   *)
(* it; no step of the call changes the stored handle, the name, the        *)
(* address or the reading.                                                 *)
(***************************************************************************)
C12_ReconnectThenSubscribe ==
    /\ [][(PollerCalls /\ bleclient # NoClient /\ ~connected[bleclient])
           => /\ pc'[Poller] = "connect"
              /\ ops'[Poller] = ReconnectOps(0)
              /\ client'[Poller] = bleclient]_vars
    /\ [][(pc[Poller] = "connect" /\ connected'[client[Poller]])
           => /\ pc'[Poller] = "start_notify"
              /\ client'[Poller] = bleclient
              /\ ops'[Poller] = ReconnectOps(1)]_vars
    /\ [](Count(Poller, "connect") = 1
           => /\ client[Poller] = bleclient
              /\ \E n \in 0..NumWrite : ops[Poller] = ReconnectOps(n)
              /\ (Ended(Poller) /\ ret[Poller] = "device")
                 => ops[Poller] = ReconnectOps(NumWrite))
    /\ [][(Count(Poller, "connect") = 1 /\ pc[Poller] # "idle" /\ ~Notified)
           => UNCHANGED <<bardevice, bleclient>>]_vars

\* a reconnect has returned: all five subscribed again, the reading decoded
\* before the connection was lost still stored
C12_Witness ==
    /\ Ended(Poller) /\ ret[Poller] = "device"
    /\ ops[Poller] = ReconnectOps(NumWrite)
    /\ connected[bleclient] /\ notifying[bleclient] = Writes
    /\ now = 1 /\ Sensors.last = Some(1) /\ event = "clear"

\* the sensors dict after decoding the full telemetry frame data at time clock
Decoded(data, clock) ==
    [temperature |-> Some(data[4] + 256 * data[5]),
     humidity |-> Some(data[7]),
     pressure |-> Some(data[9] + 256 * data[10]),
     last |-> Some(clock)]

(***************************************************************************)
(* C13: once the device record exists, only notification_handler writes    *)
(* the reading: no step of update_device (call, completion of an await,    *)
(* return) and no disconnect changes a sensor value; a full telemetry      *)
(* frame delivered while a call is suspended is decoded into the record,   *)
(* so it is in the record the call returns.                                *)
(***************************************************************************)
C13_SingleMutationPoint ==
    /\ [][(bardevice # None /\ ~Notified)
           => bardevice'[1].sensors = bardevice[1].sensors]_vars
    /\ [][(Notified /\ pc[Poller] # "idle" /\ sender'[1] >= TelemetryHandle
              /\ Len(command_data'[1]) >= FrameLen)
           => bardevice'[1].sensors = Decoded(command_data'[1], now')]_vars

\* a frame delivered between two subscribe attempts of a call in flight
\* has been decoded
C13_Witness ==
    /\ pc[Poller] = "start_notify" /\ idx[Poller] = 3
    /\ FullFrameLast /\ event = "set"
    /\ Sensors = Decoded(command_data[1], now)

(***************************************************************************)
(* C14: a call in which no start_notify failed with a Missing error, in    *)
(* particular one whose establish_connection, connect or start_notify      *)
(* failed with another error, issues no clear_cache and no disconnect.     *)
(***************************************************************************)
C14_OtherFailuresDoNotRecover ==
    \A t \in Tasks :
        ~missing[t]
        => Count(t, "clear_cache") = 0 /\ Count(t, "disconnect") = 0

\* all five start_notify of a call failed with a plain BleakError on a
\* connected handle
C14_Witness ==
    /\ Ended(Poller) /\ ret[Poller] = "device" /\ ~missing[Poller]
    /\ Len(SubscribeSeq(Poller)) = NumWrite
    /\ bleclient # NoClient /\ connected[bleclient]
    /\ notifying[bleclient] = {}

(***************************************************************************)
(* C15: name and address of the device record are written when the record  *)
(* is created and by no later step: no later call of update_device,        *)
(* whatever device it is passed, no reconnect and no notification changes  *)
(* them, and the record is never dropped.                                  *)
(***************************************************************************)
C15_IdentityIsSetOnce ==
    [][bardevice # None
        => /\ bardevice' # None
           /\ bardevice'[1].name = bardevice[1].name
           /\ bardevice'[1].address = bardevice[1].address]_vars

\* a reconnect called with another device has returned and the record
\* still carries the first name and address
C15_Witness ==
    /\ Ended(Poller) /\ ret[Poller] = "device"
    /\ Count(Poller, "connect") = 1
    /\ ble_device[Poller][1].name # bardevice[1].name
    /\ ble_device[Poller][1].address # bardevice[1].address
    /\ bardevice[1].address = AddressOf(bardevice[1].name)

(***************************************************************************)
(* C16: whenever "last" is set, temperature, humidity and pressure are     *)
(* set too.                                                                *)
(***************************************************************************)
C16_TimestampImpliesValues ==
    (bardevice # None /\ Sensors.last # None)
    => /\ Sensors.temperature # None
       /\ Sensors.humidity # None
       /\ Sensors.pressure # None

\* a frame cut after 7 bytes failed to decode after a full frame: "last"
\* is the time of the full frame and the three values are set
C16_Witness ==
    /\ bardevice # None /\ now = 2 /\ Sensors.last = Some(1)
    /\ handler_exc = "struct.error" /\ Len(command_data[1]) = 7
    /\ Sensors.temperature # None /\ Sensors.humidity # None
    /\ Sensors.pressure # None

(***************************************************************************)
(* C17: the name-prefix gate is not applied on a reconnect: when connect() *)
(* returns in a call for a name without the prefix, WRITE1 is subscribed   *)
(* next, and such a call returns only after all five were attempted.       *)
(***************************************************************************)
C17_ReconnectIgnoresPrefix ==
    /\ [][(pc[Poller] = "connect" /\ pc'[Poller] # "connect"
              /\ ret'[Poller] # "BleakError"
              /\ ~HasPrefix(ble_device[Poller][1].name))
           => /\ pc'[Poller] = "start_notify"
              /\ idx'[Poller] = 1
              /\ event' = "clear"]_vars
    /\ [](\A t \in Tasks :
            (Ended(t) /\ ret[t] = "device" /\ Count(t, "connect") = 1
                /\ ~HasPrefix(ble_device[t][1].name))
            => SubscribeSeq(t) = <<1, 2, 3, 4, 5>>)

\* a device without the prefix has all five notifications on after a
\* reconnect
C17_Witness ==
    /\ Ended(Poller) /\ ret[Poller] = "device"
    /\ Count(Poller, "connect") = 1
    /\ ~HasPrefix(ble_device[Poller][1].name)
    /\ ~HasPrefix(bardevice[1].name)
    /\ connected[bleclient] /\ notifying[bleclient] = Writes
    /\ now = 0

\* the operations of a call that establishes the connection and subscribes
\* to WRITE1..WRITEn
FirstOps(n) ==
    << <<"establish_connection", 0>> >> \o [i \in 1..n |-> <<"start_notify", i>>]

(***************************************************************************)
(* C18: when establish_connection fails the call raises the error, the     *)
(* device record stays as created (all four fields absent) and no handle   *)
(* is stored; the next call keeps that record and awaits                   *)
(* establish_connection again, after which the name-prefix gate of the     *)
(* first connection decides on the subscription.                           *)
(***************************************************************************)
C18_FailedFirstConnectionIsRetried ==
    /\ [][(pc[Poller] = "establish_connection" /\ pc'[Poller] = "idle"
              /\ ret'[Poller] # "device")
           => /\ ret'[Poller] = "BleakError"
              /\ bardevice' # None
              /\ bardevice' = bardevice
              /\ bardevice'[1].sensors = NewSensors
              /\ bleclient' = NoClient
              /\ nclients' = nclients]_vars
    /\ [][(PollerCalls /\ bardevice # None /\ bleclient = NoClient)
           => /\ bardevice' = bardevice
              /\ pc'[Poller] = "establish_connection"
              /\ ops'[Poller] = FirstOps(0)]_vars
    /\ [][(pc[Poller] = "establish_connection" /\ nclients' # nclients)
           => IF HasPrefix(ble_device[Poller][1].name)
              THEN pc'[Poller] = "start_notify" /\ ops'[Poller] = FirstOps(1)
              ELSE pc'[Poller] = "idle" /\ ops'[Poller] = FirstOps(0)]_vars

\* a first call for a device without the prefix failed; the retry, called
\* for a device with the prefix, kept the record and subscribed
C18_Witness ==
    /\ Ended(Poller) /\ ret[Poller] = "device"
    /\ ops[Poller] = FirstOps(NumWrite)
    /\ ~HasPrefix(bardevice[1].name)
    /\ HasPrefix(ble_device[Poller][1].name)
    /\ Sensors = NewSensors

(***************************************************************************)
(* C19: on a transport whose operations all end, every call of             *)
(* update_device ends (returns or raises), whether or not the device ever  *)
(* delivers a notification.                                                *)
(***************************************************************************)
C19_EveryCallEnds == (pc[Poller] # "idle") ~> (pc[Poller] = "idle")

\* the first call for a device with the prefix has returned although no
\* notification was ever delivered
C19_Witness ==
    /\ Ended(Poller) /\ ret[Poller] = "device"
    /\ ops[Poller] = FirstOps(NumWrite)
    /\ HasPrefix(ble_device[Poller][1].name)
    /\ now = 0 /\ event = "clear"
    /\ connected[bleclient] /\ notifying[bleclient] = Writes

(***************************************************************************)
(* C20: also when a second call of update_device starts while the first    *)
(* is suspended in establish_connection, every live handle is the one the  *)
(* session stores: no handle is established and left live unreferenced.    *)
(***************************************************************************)
C20_NoUnreferencedLiveHandle ==
    \A c \in Clients : connected[c] => bleclient = c

====
